---- MODULE Spec2Model ----
(***************************************************************************)
(* The translation lookaside buffer of rv32emu (src/src/tlb.c, tlb.h):     *)
(* two FIFO lists of translation entries, the instruction set (iTLB) and   *)
(* the data set (dTLB), with the public operations tlb_new, tlb_lookup,    *)
(* tlb_refill, tlb_flush and tlb_delete.                                   *)
(*                                                                         *)
(* uint32_t values below 2^31 are held as themselves.  The model checker's *)
(* integers are 32-bit signed, so a uint32_t value u >= 2^31 is held as    *)
(* its two's-complement reading u - 2^32; the only such value the code     *)
(* produces is (uint32_t) -1 = 0xFFFFFFFF, held as -1.                     *)
(***************************************************************************)
EXTENDS Integers, Sequences, FiniteSets, TLC

(***************************************************************************)
(* Bounds of the model.                                                    *)
(***************************************************************************)
\* largest capacity handed to tlb_new
MaxCapacity == 2
\* largest number of tlb_refill calls in one run of Spec, both sets together
MaxRefills == 2

(***************************************************************************)
(* Constants of riscv.h / utils.h (the headers tlb.c includes).            *)
(***************************************************************************)
RV_PG_SHIFT == 12
PTE_R == 2
PTE_W == 4
PTE_U == 16

\* tlb_type_t
iTLB == 0
dTLB == 1
TlbTypes == {iTLB, dTLB}

(***************************************************************************)
(* Inputs.  Addresses keep their real width: 0x1234 and 0x2234 lie in the  *)
(* same 4 MiB superpage but in different 4 KiB pages, 0x401234 lies in the *)
(* next superpage; all three have a non-zero page offset.                  *)
(***************************************************************************)
VA_1234 == 1 * 2^12 + 564
VA_2234 == 2 * 2^12 + 564
VA_401234 == 1 * 2^22 + 1 * 2^12 + 564
VAddrs == {VA_1234, VA_2234, VA_401234}
\* 0xA000, 0xB000, 0xC000 and 0xC00000
PPN_A000 == 10 * 2^12
PPN_B000 == 11 * 2^12
PPN_C000 == 12 * 2^12
PPN_C00000 == 3 * 2^22
\* access requested by tlb_lookup: R, W, R|W
Accesses == {PTE_R, PTE_W, PTE_R + PTE_W}
\* What the page-table walker hands to tlb_refill: <<vaddr, ppn, access,
\* level>>.  A user page, the same page mapped elsewhere, a user superpage
\* covering both 0x1234 and 0x2234, and a supervisor page.
Walks ==
    {<<VA_1234, PPN_A000, PTE_R + PTE_U, 0>>,
     <<VA_1234, PPN_C00000, PTE_R + PTE_U, 0>>,
     <<VA_2234, PPN_C00000, PTE_R + PTE_U, 1>>,
     <<VA_401234, PPN_A000, PTE_R + PTE_W, 0>>}
\* Three user pages, for the runs that fill a set beyond its capacity.
FifoWalks ==
    {<<VA_1234, PPN_A000, PTE_R + PTE_U, 0>>,
     <<VA_2234, PPN_B000, PTE_R + PTE_U, 0>>,
     <<VA_401234, PPN_C000, PTE_R + PTE_U, 0>>}
\* priv_mode: 0 = user, 1 = supervisor
PrivModes == {0, 1}
\* the values the branches of _tlb_flush distinguish
FlushArgs == {0, 1}

(***************************************************************************)
(* Bit operations on non-negative integers.                                *)
(***************************************************************************)
RECURSIVE BitAnd(_, _)
BitAnd(a, b) ==
    IF a = 0 \/ b = 0 THEN 0
    ELSE (IF a % 2 = 1 /\ b % 2 = 1 THEN 1 ELSE 0) + 2 * BitAnd(a \div 2, b \div 2)

RECURSIVE BitOr(_, _)
BitOr(a, b) ==
    IF a = 0 THEN b
    ELSE IF b = 0 THEN a
    ELSE (IF a % 2 = 1 \/ b % 2 = 1 THEN 1 ELSE 0) + 2 * BitOr(a \div 2, b \div 2)

\* x & MASK(n), MASK(n) the n low bits set: the n low bits of x
LowBits(x, n) == x % 2^n

\* x & ~MASK(n): x with its n low bits cleared
ClearLowBits(x, n) == x - LowBits(x, n)

\* x >> n
ShiftRight(x, n) == x \div 2^n

\* (uint32_t) -1, the value _tlb_flush stores in entry->vpn
FLUSHED_VPN == -1

\* a <= b on uint32_t values
U32Le(a, b) == IF (a < 0) = (b < 0) THEN a <= b ELSE b < 0

\* x-- and x++ on a uint32_t
\* (*tlb_size)-- left out of tlb_evict
Dec32_none(x) == x

Dec32(x) == IF x = 0 THEN -1 ELSE x - 1
Inc32(x) == IF x = -1 THEN 0 ELSE x + 1

(***************************************************************************)
(* get_vpn_by_vaddr_n_level and the offset half of get_vpn_and_offset.     *)
(***************************************************************************)
get_vpn_by_vaddr_n_level(vaddr, level) ==
    IF level = 1
    THEN ShiftRight(ClearLowBits(vaddr, RV_PG_SHIFT + 10), RV_PG_SHIFT + 10)
    ELSE ShiftRight(ClearLowBits(vaddr, RV_PG_SHIFT), RV_PG_SHIFT)

get_offset(vaddr, level) ==
    IF level = 1
    THEN LowBits(vaddr, RV_PG_SHIFT + 10)
    ELSE LowBits(vaddr, RV_PG_SHIFT)

(***************************************************************************)
(* State.  A list is the sequence of its entries from list head to tail.   *)
(* An entry is [vpn, ppn, access, level, node]; node is the identity of    *)
(* the calloc'ed tlb_entry_t: the ordinal of the tlb_refill on its set     *)
(* that allocated it.                                                      *)
(***************************************************************************)
VARIABLES
    itlb_size, itlb_capacity, itlb_list,
    dtlb_size, dtlb_capacity, dtlb_list,
    aborted,     \* an assert of tlb.c has failed: the process is gone
    refilled,    \* per set, the entries tlb_refill has appended, in order
    flushed,     \* per set, flushed and not refilled since
    freed,       \* per set, the entries handed to free(), as they were then
    tlb_freed,   \* free(tlb) has run
    uaf,         \* an entry has been read after it was freed
    call         \* the last public call, its arguments and its result

vars == <<itlb_size, itlb_capacity, itlb_list,
          dtlb_size, dtlb_capacity, dtlb_list,
          aborted, refilled, flushed, freed, tlb_freed, uaf, call>>

ListOf(type) == IF type = iTLB THEN itlb_list ELSE dtlb_list
SizeOf(type) == IF type = iTLB THEN itlb_size ELSE dtlb_size
CapacityOf(type) == IF type = iTLB THEN itlb_capacity ELSE dtlb_capacity

NoCall ==
    [op |-> "new", type |-> iTLB, vaddr |-> 0, ppn |-> 0, access |-> 0,
     level |-> 0, priv_mode |-> 0, asid |-> 0, hit |-> FALSE, addr |-> 0,
     idx |-> 0, evicted |-> FALSE]

(***************************************************************************)
(* tlb_lookup: the first entry from the list head that passes the test     *)
(* decides; the result is [hit, addr, idx], idx the position of that entry *)
(* (0 on a miss).                                                          *)
(***************************************************************************)
\* EntryHits without the PTE_U / priv_mode test
EntryHits_NoPriv(entry, vaddr, access, priv_mode) ==
    /\ entry.vpn = get_vpn_by_vaddr_n_level(vaddr, entry.level)
    /\ BitAnd(entry.access, access) # 0

\* the hit test without the comparison of entry->vpn with the address's vpn
EntryHits_NoVpn(entry, vaddr, access, priv_mode) ==
    /\ BitAnd(entry.access, access) # 0
    /\ BitAnd(entry.access, PTE_U) # 0
    /\ priv_mode = 0

EntryHits(entry, vaddr, access, priv_mode) ==
    /\ entry.vpn = get_vpn_by_vaddr_n_level(vaddr, entry.level)
    /\ BitAnd(entry.access, access) # 0
    /\ BitAnd(entry.access, PTE_U) # 0
    /\ priv_mode = 0

\* the walk of tlb_lookup going on after a match, so that the last match wins
RECURSIVE lookup_from_newest(_, _, _, _, _)
lookup_from_newest(list, i, vaddr, access, priv_mode) ==
    IF i > Len(list) THEN [hit |-> FALSE, addr |-> 0, idx |-> 0]
    ELSE LET rest == lookup_from_newest(list, i + 1, vaddr, access, priv_mode)
         IN IF rest.hit THEN rest
            ELSE IF EntryHits(list[i], vaddr, access, priv_mode)
                 THEN [hit |-> TRUE,
                       addr |-> BitOr(list[i].ppn,
                                      get_offset(vaddr, list[i].level)),
                       idx |-> i]
                 ELSE rest

RECURSIVE lookup_from(_, _, _, _, _)
lookup_from(list, i, vaddr, access, priv_mode) ==
    IF i > Len(list) THEN [hit |-> FALSE, addr |-> 0, idx |-> 0]
    ELSE IF EntryHits(list[i], vaddr, access, priv_mode)
         THEN [hit |-> TRUE,
               addr |-> BitOr(list[i].ppn, get_offset(vaddr, list[i].level)),
               idx |-> i]
         ELSE lookup_from(list, i + 1, vaddr, access, priv_mode)

tlb_lookup(list, vaddr, access, priv_mode) ==
    IF list = <<>> THEN [hit |-> FALSE, addr |-> 0, idx |-> 0]
    ELSE lookup_from(list, 1, vaddr, access, priv_mode)

(***************************************************************************)
(* tlb_evict: unlink and free the first entry.  Only called with the       *)
(* assertion !list_empty satisfied; the caller models the failed assert.   *)
(***************************************************************************)
\* tlb_evict taking list_last_entry for list_first_entry
tlb_evict_last(list) == SubSeq(list, 1, Len(list) - 1)

\* tlb_evict unlinking every entry of the list
tlb_evict_all(list) == <<>>

tlb_evict(list) == Tail(list)

\* _tlb_refill: list_add_tail
\* _tlb_refill linking the new entry with list_add, at the head
list_add_head(list, entry) == <<entry>> \o list

list_add_tail(list, entry) == Append(list, entry)

new_entry(type, vaddr, ppn, access, level) ==
    [vpn |-> get_vpn_by_vaddr_n_level(vaddr, level),
     ppn |-> ppn,
     access |-> access,
     level |-> level,
     node |-> Len(refilled[type]) + 1]

\* tlb_is_full testing > for ==
tlb_is_full_gt(size, capacity) == size > capacity

\* the test of tlb_refill that decides on an eviction
tlb_is_full(size, capacity) == size = capacity

\* _tlb_flush invalidating only in its first branch, asid == 0 && vaddr == 0
flush_list_selective(list, asid, vaddr) ==
    IF asid = 0 /\ vaddr = 0
    THEN [i \in 1..Len(list) |-> [list[i] EXCEPT !.vpn = FLUSHED_VPN]]
    ELSE list

\* _tlb_flush unlinking the entries instead of marking them
flush_list_remove(list, asid, vaddr) == <<>>

\* _tlb_flush: every entry gets vpn = -1, for all asid and vaddr
flush_list(list, asid, vaddr) ==
    [i \in 1..Len(list) |-> [list[i] EXCEPT !.vpn = FLUSHED_VPN]]

(***************************************************************************)
(* tlb_new(C): both sets empty with capacity C.                            *)
(***************************************************************************)
Init ==
    /\ \E C \in 0..MaxCapacity :
          /\ itlb_capacity = C
          /\ dtlb_capacity = C
    /\ itlb_size = 0
    /\ dtlb_size = 0
    /\ itlb_list = <<>>
    /\ dtlb_list = <<>>
    /\ aborted = FALSE
    /\ refilled = [t \in TlbTypes |-> <<>>]
    /\ flushed = [t \in TlbTypes |-> FALSE]
    /\ freed = [t \in TlbTypes |-> <<>>]
    /\ tlb_freed = FALSE
    /\ uaf = FALSE
    /\ call = NoCall

\* SetList storing the size in the other set's tlb_size
SetList_other_size(type, list, size) ==
    IF type = iTLB
    THEN /\ itlb_list' = list
         /\ dtlb_size' = size
         /\ UNCHANGED <<dtlb_list, itlb_size>>
    ELSE /\ dtlb_list' = list
         /\ itlb_size' = size
         /\ UNCHANGED <<itlb_list, dtlb_size>>

SetList(type, list, size) ==
    IF type = iTLB
    THEN /\ itlb_list' = list
         /\ itlb_size' = size
         /\ UNCHANGED <<dtlb_list, dtlb_size>>
    ELSE /\ dtlb_list' = list
         /\ dtlb_size' = size
         /\ UNCHANGED <<itlb_list, itlb_size>>

\* tlb_lookup moving the entry it hits on to the tail of its list
Lookup_MoveToTail(type, vaddr, access, priv_mode) ==
    /\ ~aborted
    /\ LET list == ListOf(type)
           r == tlb_lookup(list, vaddr, access, priv_mode)
       IN /\ call' = [op |-> "lookup", type |-> type, vaddr |-> vaddr,
                      ppn |-> 0, access |-> access, level |-> 0,
                      priv_mode |-> priv_mode, asid |-> 0,
                      evicted |-> FALSE] @@ r
          /\ IF r.hit
             THEN SetList(type,
                          Append(SubSeq(list, 1, r.idx - 1)
                                     \o SubSeq(list, r.idx + 1, Len(list)),
                                 list[r.idx]),
                          SizeOf(type))
             ELSE UNCHANGED <<itlb_size, itlb_list, dtlb_size, dtlb_list>>
    /\ UNCHANGED <<itlb_capacity, dtlb_capacity,
                   aborted, refilled, flushed, freed, tlb_freed, uaf>>

Lookup(type, vaddr, access, priv_mode) ==
    /\ ~aborted
    \* the arguments, joined with the result [hit, addr, idx]
    /\ call' = [op |-> "lookup", type |-> type, vaddr |-> vaddr, ppn |-> 0,
                access |-> access, level |-> 0, priv_mode |-> priv_mode,
                asid |-> 0, evicted |-> FALSE]
               @@ tlb_lookup(ListOf(type), vaddr, access, priv_mode)
    /\ UNCHANGED <<itlb_size, itlb_capacity, itlb_list,
                   dtlb_size, dtlb_capacity, dtlb_list,
                   aborted, refilled, flushed, freed, tlb_freed, uaf>>

(***************************************************************************)
(* tlb_refill.  With size == capacity it calls tlb_evict, whose first      *)
(* statement is assert(!list_empty(tlb_list)): on an empty list the        *)
(* process aborts there.                                                   *)
(***************************************************************************)
Refill(type, vaddr, ppn, access, level) ==
    /\ ~aborted
    /\ LET full == tlb_is_full(SizeOf(type), CapacityOf(type))
           c == [NoCall EXCEPT !.op = "refill", !.type = type,
                               !.vaddr = vaddr, !.ppn = ppn,
                               !.access = access, !.level = level,
                               !.evicted = full]
       IN IF full /\ ListOf(type) = <<>>
          THEN /\ aborted' = TRUE
               /\ call' = c
               /\ UNCHANGED <<itlb_size, itlb_list, dtlb_size, dtlb_list,
                              refilled, flushed, freed>>
          ELSE LET list1 == IF full THEN tlb_evict(ListOf(type)) ELSE ListOf(type)
                   size1 == IF full THEN Dec32(SizeOf(type)) ELSE SizeOf(type)
                   entry == new_entry(type, vaddr, ppn, access, level)
               IN /\ SetList(type, list_add_tail(list1, entry), Inc32(size1))
                  /\ refilled' = [refilled EXCEPT ![type] = Append(@, entry)]
                  /\ flushed' = [flushed EXCEPT ![type] = FALSE]
                  /\ freed' = IF full
                               THEN [freed EXCEPT
                                        ![type] = Append(@, ListOf(type)[1])]
                               ELSE freed
                  /\ call' = c
                  /\ UNCHANGED aborted
    /\ UNCHANGED <<itlb_capacity, dtlb_capacity, tlb_freed, uaf>>

\* tlb_flush: _tlb_flush on the instruction set, then on the data set
Flush(asid, vaddr) ==
    /\ ~aborted
    /\ itlb_list' = flush_list(itlb_list, asid, vaddr)
    /\ dtlb_list' = flush_list(dtlb_list, asid, vaddr)
    /\ flushed' = [t \in TlbTypes |-> TRUE]
    /\ call' = [NoCall EXCEPT !.op = "flush", !.asid = asid, !.vaddr = vaddr]
    /\ UNCHANGED <<itlb_size, itlb_capacity, dtlb_size, dtlb_capacity,
                   aborted, refilled, freed, tlb_freed, uaf>>

DoLookup ==
    \E type \in TlbTypes, vaddr \in VAddrs, access \in Accesses,
       priv_mode \in PrivModes : Lookup(type, vaddr, access, priv_mode)

\* tlb_refill calls that have returned, both sets together
NumRefills == Len(refilled[iTLB]) + Len(refilled[dTLB])

DoRefill ==
    /\ NumRefills < MaxRefills
    /\ \E type \in TlbTypes, w \in Walks : Refill(type, w[1], w[2], w[3], w[4])

DoFlush ==
    \E asid \in FlushArgs, vaddr \in FlushArgs : Flush(asid, vaddr)

Next == DoLookup \/ DoRefill \/ DoFlush

Spec == Init /\ [][Next]_vars

(***************************************************************************)
(* The caller's protocol: the page-table walker runs, and tlb_refill is     *)
(* called with its result, only after a tlb_lookup of that set and address *)
(* has missed.                                                             *)
(***************************************************************************)
WalkRefill ==
    /\ NumRefills < MaxRefills
    /\ call.op = "lookup"
    /\ ~call.hit
    /\ \E w \in Walks :
          /\ w[1] = call.vaddr
          /\ Refill(call.type, w[1], w[2], w[3], w[4])

WalkNext == DoLookup \/ WalkRefill \/ DoFlush

SpecWalk == Init /\ [][WalkNext]_vars

(***************************************************************************)
(* The runs that overfill a set: one more refill than the largest          *)
(* capacity, user-mode read lookups.                                       *)
(***************************************************************************)
FifoLookup ==
    \E type \in TlbTypes, vaddr \in VAddrs : Lookup(type, vaddr, PTE_R, 0)

FifoRefill ==
    /\ NumRefills < MaxCapacity + 1
    /\ \E type \in TlbTypes, w \in FifoWalks :
          Refill(type, w[1], w[2], w[3], w[4])

FifoNext == FifoLookup \/ FifoRefill \/ DoFlush

SpecFifo == Init /\ [][FifoNext]_vars

(***************************************************************************)
(* tlb_delete: _tlb_delete on the instruction set, then on the data set,   *)
(* then free(tlb).  _tlb_delete walks the list with list_for_each_entry    *)
(* and, in the loop body, unlinks and frees the entry the loop then        *)
(* advances from: entry->list.next is read from freed memory.  What that   *)
(* read yields is undefined: either the pointer list_del left there, and   *)
(* the walk goes on to the next entry, or the access faults (the FIXME at  *)
(* free(entry): "poweroff / poweroff -f cause segmentation fault").  An    *)
(* empty list is left at once, with no entry touched.                      *)
(***************************************************************************)
DeleteOutcomes == {"stale", "fault"}

Delete(outcome) ==
    /\ ~aborted
    /\ ~tlb_freed
    /\ call' = [NoCall EXCEPT !.op = "delete"]
    /\ IF itlb_list = <<>> /\ dtlb_list = <<>>
       THEN /\ outcome = "stale"
            /\ tlb_freed' = TRUE
            /\ UNCHANGED <<itlb_list, dtlb_list, freed, uaf, aborted>>
       ELSE /\ uaf' = TRUE
            /\ IF outcome = "stale"
               THEN /\ itlb_list' = <<>>
                    /\ dtlb_list' = <<>>
                    /\ freed' = [t \in TlbTypes |->
                                    freed[t] \o ListOf(t)]
                    /\ tlb_freed' = TRUE
                    /\ UNCHANGED aborted
               ELSE LET t == IF itlb_list # <<>> THEN iTLB ELSE dTLB
                    IN /\ itlb_list' = IF t = iTLB THEN Tail(itlb_list)
                                                   ELSE itlb_list
                       /\ dtlb_list' = IF t = dTLB THEN Tail(dtlb_list)
                                                   ELSE dtlb_list
                       /\ freed' = [freed EXCEPT
                                       ![t] = Append(@, ListOf(t)[1])]
                       /\ aborted' = TRUE
                       /\ UNCHANGED tlb_freed
    /\ UNCHANGED <<itlb_size, itlb_capacity, dtlb_size, dtlb_capacity,
                   refilled, flushed>>

DoDelete == \E outcome \in DeleteOutcomes : Delete(outcome)

\* The whole life of a TLB: the calls of SpecFifo until tlb_delete ends it;
\* the caller makes no call on a TLB it has deleted.
LiveLookup == ~tlb_freed /\ FifoLookup

LiveRefill == ~tlb_freed /\ FifoRefill

LiveFlush == ~tlb_freed /\ DoFlush

DeleteNext == LiveLookup \/ LiveRefill \/ LiveFlush \/ DoDelete

SpecDelete == Init /\ [][DeleteNext]_vars

(***************************************************************************)
(* Properties.                                                             *)
(***************************************************************************)
Min(a, b) == IF a <= b THEN a ELSE b

\* every bit of access is set in rights
Contains(rights, access) == BitAnd(rights, access) = access

HasU(entry) == BitAnd(entry.access, PTE_U) # 0

\* the address of vaddr falls in the page entry was cached for
VpnMatches(entry, vaddr) ==
    entry.vpn = get_vpn_by_vaddr_n_level(vaddr, entry.level)

\* the translation entry gives for vaddr
Translate(entry, vaddr) == BitOr(entry.ppn, get_offset(vaddr, entry.level))

\* the list the last call worked on
CallList == ListOf(call.type)

\* C1: in every reachable state the size of each set is at most its
\* capacity: itlb_size <= itlb_capacity and dtlb_size <= dtlb_capacity.
C1_CapacityInvariant ==
    /\ U32Le(itlb_size, itlb_capacity)
    /\ U32Le(dtlb_size, dtlb_capacity)

\* a refill into a full set of the largest capacity has returned
C1_Witness ==
    /\ call.op = "refill"
    /\ call.evicted
    /\ ~aborted
    /\ CapacityOf(call.type) = MaxCapacity
    /\ SizeOf(call.type) = CapacityOf(call.type)

\* C2: after k refills E1..Ek into a set of capacity C that started empty,
\* the set holds exactly the last min(k, C) of them, E(k-C+1)..Ek, in
\* insertion order: each stored entry is the refilled entry of its position
\* (its vpn possibly invalidated by a flush), and the older ones are gone.
C2_FifoOrder ==
    \A t \in TlbTypes :
        LET n == Len(refilled[t])
            list == ListOf(t)
            k == Len(list)
        IN /\ k = Min(n, CapacityOf(t))
           /\ \A i \in 1..k :
                 LET E == refilled[t][n - k + i]
                 IN /\ list[i].node = n - k + i
                    /\ list[i].ppn = E.ppn
                    /\ list[i].access = E.access
                    /\ list[i].level = E.level
                    /\ list[i].vpn \in {E.vpn, FLUSHED_VPN}

\* more refills than the capacity, of at least two, went into one set: the
\* oldest entry is gone and the others are kept
C2_Witness ==
    \E t \in TlbTypes :
        /\ CapacityOf(t) >= 2
        /\ Len(refilled[t]) > CapacityOf(t)
        /\ Len(ListOf(t)) = CapacityOf(t)
        /\ ListOf(t)[1].node = 2
        /\ call.op = "refill"
        /\ call.type = t

\* C3: a lookup at supervisor privilege (priv_mode # 0) whose address matches
\* the vpn of a stored, unflushed entry without PTE_U, with the requested
\* access contained in the entry's rights, hits and returns
\* entry.ppn | offset.
C3_SupervisorHit ==
    (call.op = "lookup" /\ call.priv_mode # 0) =>
        \A i \in 1..Len(CallList) :
            LET entry == CallList[i]
            IN (/\ VpnMatches(entry, call.vaddr)
                /\ ~HasU(entry)
                /\ Contains(entry.access, call.access))
               => /\ call.hit
                  /\ call.addr = Translate(entry, call.vaddr)

\* C4: a lookup at user privilege (priv_mode = 0) of an address whose level-0
\* entry, refilled with PTE_U, is still stored and unflushed, with the
\* requested access contained in the entry's rights, hits and returns
\* ppn | (va & 0xFFF) of that entry.
C4_UserHitLevel0 ==
    (call.op = "lookup" /\ call.priv_mode = 0) =>
        \A i \in 1..Len(CallList) :
            LET entry == CallList[i]
            IN (/\ entry.level = 0
                /\ VpnMatches(entry, call.vaddr)
                /\ HasU(entry)
                /\ Contains(entry.access, call.access))
               => /\ call.hit
                  /\ call.addr = BitOr(entry.ppn, LowBits(call.vaddr, 12))

\* C5: a user-mode lookup with permitted access of any address sharing bits
\* 31..22 with a stored, unflushed, user-accessible level-1 entry hits and
\* returns ppn | (va' & 0x3FFFFF) of that entry; and a hit is never decided
\* by a level-1 entry whose bits 31..22 differ from those of the address.
C5_SuperpageMasking ==
    (call.op = "lookup" /\ call.priv_mode = 0) =>
        /\ \A i \in 1..Len(CallList) :
              LET entry == CallList[i]
              IN (/\ entry.level = 1
                  /\ entry.vpn = call.vaddr \div 2^22
                  /\ HasU(entry)
                  /\ Contains(entry.access, call.access))
                 => /\ call.hit
                    /\ call.addr = BitOr(entry.ppn, LowBits(call.vaddr, 22))
        /\ (call.hit /\ CallList[call.idx].level = 1)
              => CallList[call.idx].vpn = call.vaddr \div 2^22

\* C6: a lookup at user privilege never hits on an entry without PTE_U, and
\* a lookup at supervisor privilege never hits on an entry with PTE_U: the
\* entry that decides a hit has PTE_U exactly when priv_mode is 0.
C6_PrivilegeIsolation ==
    (call.op = "lookup" /\ call.hit) =>
        /\ call.idx \in 1..Len(CallList)
        /\ HasU(CallList[call.idx]) <=> (call.priv_mode = 0)

\* a user-mode lookup has missed although a supervisor entry matches its
\* address and shares rights with the request
C6_Witness ==
    /\ call.op = "lookup"
    /\ call.priv_mode = 0
    /\ ~call.hit
    /\ \E i \in 1..Len(CallList) :
          /\ VpnMatches(CallList[i], call.vaddr)
          /\ ~HasU(CallList[i])
          /\ Contains(CallList[i].access, call.access)

\* C7: a lookup hits on an entry only if every requested access bit is set
\* in the entry's rights.
C7_NoOverGrant ==
    (call.op = "lookup" /\ call.hit) =>
        Contains(CallList[call.idx].access, call.access)

\* C8: once tlb_flush has run, with any asid and vaddr, every lookup on a
\* set misses until that set is refilled: the lookup just made missed, and
\* so would a lookup for any address, access and privilege mode.
C8_FlushClearsAll ==
    /\ (call.op = "lookup" /\ flushed[call.type]) => ~call.hit
    /\ \A t \in TlbTypes :
          flushed[t] =>
              \A vaddr \in VAddrs, access \in Accesses, priv_mode \in PrivModes :
                  ~tlb_lookup(ListOf(t), vaddr, access, priv_mode).hit

\* a user-mode lookup has missed on a flushed set that still stores the user
\* entry refilled for its address, with rights that contain the request
C8_Witness ==
    /\ call.op = "lookup"
    /\ call.priv_mode = 0
    /\ ~call.hit
    /\ flushed[call.type]
    /\ \E i \in 1..Len(CallList) :
          LET E == refilled[call.type][CallList[i].node]
          IN /\ VpnMatches(E, call.vaddr)
             /\ HasU(E)
             /\ Contains(E.access, call.access)
             /\ CallList[i].vpn = FLUSHED_VPN

\* C9: no set stores two unflushed entries with the same (vpn, level).
C9_UniqueMappings ==
    \A t \in TlbTypes :
        \A i, j \in 1..Len(ListOf(t)) :
            (/\ i < j
             /\ ListOf(t)[i].vpn # FLUSHED_VPN
             /\ ListOf(t)[j].vpn # FLUSHED_VPN)
            => ~(/\ ListOf(t)[i].vpn = ListOf(t)[j].vpn
                 /\ ListOf(t)[i].level = ListOf(t)[j].level)

\* C10: for every capacity, 0 included, tlb_evict is only called on a
\* non-empty set: no tlb_refill that evicts fails assert(!list_empty).
C10_EvictOnNonEmpty ==
    (call.op = "refill" /\ call.evicted) => ~aborted

OtherType(t) == IF t = iTLB THEN dTLB ELSE iTLB

\* the entry a refill call builds from its arguments, as the n-th of its set
CallEntry(c, n) ==
    [vpn |-> get_vpn_by_vaddr_n_level(c.vaddr, c.level), ppn |-> c.ppn,
     access |-> c.access, level |-> c.level, node |-> n]

\* C11: a tlb_refill on one set, with the eviction it triggers, changes
\* neither the size, capacity, contents or order of the other set nor the
\* result of any lookup against the other set.
C11_IndependentSets ==
    [][\A t \in TlbTypes :
          (call'.op = "refill" /\ call'.type = t) =>
              LET o == OtherType(t)
              IN /\ ListOf(o)' = ListOf(o)
                 /\ SizeOf(o)' = SizeOf(o)
                 /\ CapacityOf(o)' = CapacityOf(o)
                 /\ \A vaddr \in VAddrs, access \in Accesses,
                       priv_mode \in PrivModes :
                       tlb_lookup(ListOf(o)', vaddr, access, priv_mode)
                           = tlb_lookup(ListOf(o), vaddr, access, priv_mode)]_vars

\* a refill of one set has evicted while the other set stores an entry
C11_Witness ==
    /\ call.op = "refill"
    /\ call.evicted
    /\ ~aborted
    /\ Len(ListOf(OtherType(call.type))) > 0
    /\ SizeOf(OtherType(call.type)) = Len(ListOf(OtherType(call.type)))

\* C12: a tlb_refill on a set with size == capacity removes exactly the head
\* entry and appends the new one, leaving size == capacity; a tlb_refill on
\* a set with size < capacity removes nothing and raises size by one.
C12_OneEvictionPerFullRefill ==
    [][\A t \in TlbTypes :
          (call'.op = "refill" /\ call'.type = t) =>
              LET list == ListOf(t)
                  entry == CallEntry(call', Len(refilled[t]) + 1)
              IN IF SizeOf(t) = CapacityOf(t)
                 THEN /\ Len(list) > 0
                      /\ ListOf(t)' = Append(Tail(list), entry)
                      /\ SizeOf(t)' = CapacityOf(t)
                 ELSE /\ ListOf(t)' = Append(list, entry)
                      /\ SizeOf(t)' = SizeOf(t) + 1]_vars

\* C13: tlb_delete frees every entry of both sets exactly once and then the
\* TLB itself, and reads or writes no entry after it has been freed.
C13_DeletionSafety ==
    (call.op = "delete") =>
        /\ ~uaf
        /\ tlb_freed
        /\ \A t \in TlbTypes :
              /\ Len(freed[t]) = Len(refilled[t])
              /\ \A n \in 1..Len(refilled[t]) :
                    \E i \in 1..Len(freed[t]) : freed[t][i].node = n

\* the node was handed to free() by an eviction or a deletion of set t
IsFreed(t, n) == \E i \in 1..Len(freed[t]) : freed[t][i].node = n

\* C14: every hit of a lookup comes from an entry that tlb_refill inserted
\* into the looked-up set, that has since been neither evicted nor flushed
\* and whose stored vpn is the vpn of the address at the entry's own level;
\* a lookup whose address matches the vpn of no stored entry misses, and a
\* lookup on an empty set misses.
C14_NoFabricatedTranslation ==
    (call.op = "lookup") =>
        /\ call.hit =>
              /\ call.idx \in 1..Len(CallList)
              /\ LET entry == CallList[call.idx]
                 IN /\ entry.node \in 1..Len(refilled[call.type])
                    /\ entry = refilled[call.type][entry.node]
                    /\ ~IsFreed(call.type, entry.node)
                    /\ entry.vpn # FLUSHED_VPN
                    /\ VpnMatches(entry, call.vaddr)
                    /\ call.addr = Translate(entry, call.vaddr)
        /\ (\A i \in 1..Len(CallList) : ~VpnMatches(CallList[i], call.vaddr))
              => ~call.hit
        /\ (CallList = <<>>) => ~call.hit

\* a user-mode lookup has missed on a set that stores a user entry of
\* another page with rights that share a bit with the request, and another
\* lookup has a hit to report
C14_Witness ==
    /\ call.op = "lookup"
    /\ call.priv_mode = 0
    /\ ~call.hit
    /\ \E i \in 1..Len(CallList) :
          /\ CallList[i].vpn # FLUSHED_VPN
          /\ ~VpnMatches(CallList[i], call.vaddr)
          /\ HasU(CallList[i])
          /\ BitAnd(CallList[i].access, call.access) # 0
    /\ \E vaddr \in VAddrs :
          tlb_lookup(CallList, vaddr, call.access, 0).hit

\* C15: tlb_flush leaves size, capacity, number of entries and order of
\* each set as they were and changes only the vpn of the entries, to the
\* sentinel; flushed entries go on counting toward the capacity: a refill
\* into a full set of flushed entries still evicts one and leaves the size
\* at the capacity.
C15_FlushKeepsSlots ==
    [][/\ (call'.op = "flush") =>
             \A t \in TlbTypes :
                 /\ SizeOf(t)' = SizeOf(t)
                 /\ CapacityOf(t)' = CapacityOf(t)
                 /\ Len(ListOf(t)') = Len(ListOf(t))
                 /\ \A i \in 1..Len(ListOf(t)) :
                       ListOf(t)'[i] = [ListOf(t)[i] EXCEPT !.vpn = FLUSHED_VPN]
       /\ \A t \in TlbTypes :
             (/\ call'.op = "refill" /\ call'.type = t
              /\ Len(ListOf(t)) > 0
              /\ SizeOf(t) = CapacityOf(t)
              /\ \A i \in 1..Len(ListOf(t)) : ListOf(t)[i].vpn = FLUSHED_VPN)
             => /\ SizeOf(t)' = CapacityOf(t)
                /\ Len(ListOf(t)') = Len(ListOf(t))
                /\ \A i \in 1..(Len(ListOf(t)) - 1) :
                      ListOf(t)'[i] = ListOf(t)[i + 1]]_vars

\* a flush has just run on a full set of two entries, both now flushed and
\* still linked in the order of their refills
C15_Witness ==
    /\ call.op = "flush"
    /\ \E t \in TlbTypes :
          /\ SizeOf(t) = 2
          /\ CapacityOf(t) = 2
          /\ Len(ListOf(t)) = 2
          /\ ListOf(t)[1].node < ListOf(t)[2].node
          /\ \A i \in 1..2 :
                /\ ListOf(t)[i].vpn = FLUSHED_VPN
                /\ refilled[t][ListOf(t)[i].node].vpn # FLUSHED_VPN

\* C16: between public operations itlb_size is the number of entries linked
\* in itlb_list and dtlb_size the number of entries linked in dtlb_list.
C16_SizeConsistency ==
    /\ itlb_size = Len(itlb_list)
    /\ dtlb_size = Len(dtlb_list)

\* a refill has evicted from a set of capacity 2, which has gone through an
\* increment, a decrement and an increment of its size since it last held
\* one entry, while the other set is still empty with size 0
C16_Witness ==
    /\ call.op = "refill" /\ call.evicted /\ ~aborted
    /\ CapacityOf(call.type) = 2
    /\ SizeOf(call.type) = 2
    /\ Len(CallList) = 2
    /\ Len(freed[call.type]) = 1
    /\ SizeOf(OtherType(call.type)) = 0
    /\ ListOf(OtherType(call.type)) = <<>>

\* the entry is one tlb_flush has invalidated
IsFlushed(entry) == entry.vpn = FLUSHED_VPN

\* where the n-th entry refilled into a set stands, given the set's list
EntryState(list, n) ==
    IF \E i \in 1..Len(list) : list[i].node = n
    THEN LET i == CHOOSE i \in 1..Len(list) : list[i].node = n
         IN IF IsFlushed(list[i]) THEN "invalid" ELSE "valid"
    ELSE "absent"

\* no lookup hits on an entry that tlb_flush has invalidated
NoHitOnFlushed ==
    (call.op = "lookup" /\ call.hit) => ~IsFlushed(CallList[call.idx])

\* C17: each entry moves only along absent -> valid (on refill) -> invalid
\* (on flush) -> absent (on eviction); once tlb_flush has invalidated it, it
\* is never valid again and no later lookup hits on it; it leaves the set
\* only by FIFO eviction or by tlb_delete.
C17_EntryLifecycle ==
    /\ []NoHitOnFlushed
    /\ [][\A t \in TlbTypes : \A n \in 1..Len(refilled[t]') :
             LET a == EntryState(ListOf(t), n)
                 b == EntryState(ListOf(t)', n)
             IN (a # b) =>
                   \/ /\ a = "absent" /\ b = "valid"
                      /\ call'.op = "refill" /\ call'.type = t
                      /\ n = Len(refilled[t]) + 1
                   \/ /\ a = "valid" /\ b = "invalid"
                      /\ call'.op = "flush"
                   \/ /\ a = "invalid" /\ b = "absent"
                      /\ call'.op = "refill" /\ call'.type = t
                      /\ n = ListOf(t)[1].node
                   \/ /\ b = "absent"
                      /\ call'.op = "delete"]_vars

\* C17, amended: each entry moves only from absent to valid (on refill),
\* from valid to invalid (on flush), and from valid or invalid to absent (on
\* the FIFO eviction of the head, or on tlb_delete); once tlb_flush has
\* invalidated it, it is never valid again and no later lookup hits on it;
\* once absent again it never comes back.
C17_EntryLifecycleAmended ==
    /\ []NoHitOnFlushed
    /\ [][\A t \in TlbTypes : \A n \in 1..Len(refilled[t]') :
             LET a == EntryState(ListOf(t), n)
                 b == EntryState(ListOf(t)', n)
             IN (a # b) =>
                   \/ /\ a = "absent" /\ b = "valid"
                      /\ call'.op = "refill" /\ call'.type = t
                      /\ n = Len(refilled[t]) + 1
                   \/ /\ a = "valid" /\ b = "invalid"
                      /\ call'.op = "flush"
                   \/ /\ a \in {"valid", "invalid"} /\ b = "absent"
                      /\ call'.op = "refill" /\ call'.type = t
                      /\ n = ListOf(t)[1].node
                   \/ /\ b = "absent"
                      /\ call'.op = "delete"]_vars

\* a refill has evicted a valid entry from a set that had a flushed entry
\* evicted before, and the set stores the valid entry just refilled
C17_Witness ==
    /\ call.op = "refill" /\ call.evicted /\ ~aborted
    /\ Len(freed[call.type]) = 2
    /\ IsFlushed(freed[call.type][1])
    /\ ~IsFlushed(freed[call.type][2])
    /\ EntryState(CallList, 3) = "valid"
    /\ EntryState(CallList, 2) = "absent"

\* in the list every flushed entry comes before every valid one
FlushedFirst(list) ==
    \A i, j \in 1..Len(list) :
        (i < j /\ IsFlushed(list[j])) => IsFlushed(list[i])

\* C18: in every reachable state of a set all entries invalidated by a
\* flush precede all valid entries in FIFO order, and so a refill into a
\* full set never evicts a valid entry while a flushed one is still stored
\* in that set.
C18_FlushedEvictedFirst ==
    /\ [](\A t \in TlbTypes : FlushedFirst(ListOf(t)))
    /\ [][\A t \in TlbTypes :
             (/\ call'.op = "refill" /\ call'.type = t /\ call'.evicted
              /\ ~aborted'
              /\ \E i \in 1..Len(ListOf(t)) : IsFlushed(ListOf(t)[i]))
             => /\ IsFlushed(ListOf(t)[1])
                /\ \A i \in 1..Len(ListOf(t)') :
                      ListOf(t)'[i].node # ListOf(t)[1].node]_vars

\* a refill into a full set has evicted a flushed entry and left a flushed
\* entry linked before the valid one it stored
C18_Witness ==
    /\ call.op = "refill" /\ call.evicted /\ ~aborted
    /\ Len(CallList) = 2
    /\ IsFlushed(CallList[1])
    /\ ~IsFlushed(CallList[2])
    /\ Len(freed[call.type]) = 1
    /\ IsFlushed(freed[call.type][1])

\* C19: tlb_lookup, on a hit and on a miss, leaves contents, order, size and
\* capacity of both sets as they were; a hit does not move its entry in the
\* FIFO order, so the entry stays the next victim if it was.
C19_LookupReadOnly ==
    [][(call'.op = "lookup") =>
          /\ itlb_list' = itlb_list
          /\ dtlb_list' = dtlb_list
          /\ itlb_size' = itlb_size
          /\ dtlb_size' = dtlb_size
          /\ itlb_capacity' = itlb_capacity
          /\ dtlb_capacity' = dtlb_capacity
          /\ \A t \in TlbTypes :
                (call'.hit /\ call'.idx = 1 /\ call'.type = t) =>
                    tlb_evict(ListOf(t)')
                        = SubSeq(ListOf(t), 2, Len(ListOf(t)))]_vars

\* a lookup has hit on the head of a full set of two entries, which is
\* still the head
C19_Witness ==
    /\ call.op = "lookup"
    /\ call.hit
    /\ call.idx = 1
    /\ SizeOf(call.type) = 2
    /\ CapacityOf(call.type) = 2
    /\ Len(CallList) = 2
    /\ CallList[1].node < CallList[2].node

\* the hit condition of a lookup call c on an entry
HitCondition(entry, c) ==
    /\ VpnMatches(entry, c.vaddr)
    /\ BitAnd(entry.access, c.access) # 0
    /\ HasU(entry)
    /\ c.priv_mode = 0

\* C20: when several stored entries of a set satisfy the hit condition of a
\* lookup, tlb_lookup returns the translation of the oldest-inserted one of
\* them, not that of the most recent refill.
C20_OldestMatchWins ==
    (call.op = "lookup") =>
        /\ call.hit <=> \E i \in 1..Len(CallList) : HitCondition(CallList[i], call)
        /\ call.hit =>
              /\ HitCondition(CallList[call.idx], call)
              /\ call.addr = Translate(CallList[call.idx], call.vaddr)
              /\ \A i \in 1..Len(CallList) :
                    HitCondition(CallList[i], call) =>
                        CallList[call.idx].node <= CallList[i].node

\* a lookup has hit although a later refill of the same set satisfies the
\* hit condition too, at another level and with another translation
C20_Witness ==
    /\ call.op = "lookup"
    /\ call.hit
    /\ \E i \in 1..Len(CallList) :
          /\ CallList[i].node > CallList[call.idx].node
          /\ HitCondition(CallList[i], call)
          /\ CallList[i].level # CallList[call.idx].level
          /\ Translate(CallList[i], call.vaddr) # call.addr

====
